---- MODULE Spec2Model ----
(***************************************************************************)
(* EC2 Power Switch (src/main.py): the status watching worker thread, the  *)
(* shared State Store (ec2_states), the burst control globals and the      *)
(* handlers of the UI thread (start / stop / VSCode / refresh / close).    *)
(*                                                                         *)
(* Two control-flow contexts run without any lock: the worker thread       *)
(* (status_watching_worker) and the tkinter main thread.  Every access to  *)
(* a shared global or to the shared OrderedDict is a step of its own, so   *)
(* that the interleavings the interpreter allows are the interleavings of  *)
(* the model.                                                              *)
(*                                                                         *)
(* Optional values (Python None) are sequences of length 0 or 1.  Time is  *)
(* counted in seconds; the clock advances by one in time.sleep(1).         *)
(***************************************************************************)
EXTENDS Integers, Sequences, FiniteSets, TLC

\* ------------------------------------------------------------------ bounds
\* The worker is followed for MaxTick iterations of its loop.
MaxTick == 7
\* The user triggers at most MaxUIOps menu commands (FairUIOps in the
\* specification with fairness).
MaxUIOps == 2
FairUIOps == 1
\* The specification of the long run follows the worker for LongTick
\* iterations (past the first reconciliation of the default interval), with
\* at most LongUIOps start/stop commands.
LongTick == 61
LongUIOps == 2
\* The calls of single functions are made at the time ProbeTime.
ProbeTime == 2

\* ------------------------------------------------------- program constants
default_interval == 60
burst_interval == 6
BurstLength == 10

\* ---------------------------------------------------------------- options
None == <<>>
Some(x) == <<x>>
IsNone(o) == o = <<>>
Val(o) == o[1]

\* ------------------------------------------------------------ configuration
\* get_ec2_instance_configs: the ordered mapping id -> config, read once.
\* Two sections, in this order.
ConfigIds == <<"i-1", "i-2">>
ConfigIdSet == {ConfigIds[i] : i \in 1..Len(ConfigIds)}
display_name(id) == IF id = "i-1" THEN "web" ELSE "db"

\* ------------------------------------------------------------ OrderedDict
\* An OrderedDict is the sequence of its values in insertion order; each
\* value carries its key in the field id.
Keys(od) == {od[i].id : i \in 1..Len(od)}
Get(od, id) == od[CHOOSE i \in 1..Len(od) : od[i].id = id]
\* A variant of SetItem that moves a replaced key to the end
\* (`od[inst.id] = inst; od.move_to_end(inst.id)`).
SetItemMovingToEnd(od, inst) ==
    Append(SelectSeq(od, LAMBDA other : other.id # inst.id), inst)
\* A variant of SetItem for a list in place of the dictionary
\* (`states.append(inst)`).
SetItemAppending(od, inst) == Append(od, inst)
\* od[inst.id] = inst: replaces in place when the key exists, appends if not.
SetItem(od, inst) ==
    IF inst.id \in Keys(od)
    THEN [i \in 1..Len(od) |-> IF od[i].id = inst.id THEN inst ELSE od[i]]
    ELSE Append(od, inst)

\* ------------------------------------------------------------ data model
\* EC2InstanceStatus (the config back-reference is the id itself).
Status(id, name, state, public_ip, elapsed_time) ==
    [id |-> id, name |-> name, state |-> state,
     public_ip |-> public_ip, elapsed_time |-> elapsed_time]

\* --------------------------------------------------- the remote state query
\* What `aws ec2 describe-instances` can answer at time t: the return code,
\* whether stdout is JSON, and the flattened [InstanceId, Name, State.Name,
\* PublicIpAddress, LaunchTime] items.  A LaunchTime of None is a text that
\* strptime rejects.
Raw(id, name, state, ip, launch) ==
    [id |-> id, name |-> name, state |-> state, ip |-> ip, launch |-> launch]
\* The Name tag of an instance: i-1 carries one, i-2 does not.
RemoteName(id) == IF id = "i-1" THEN Some("tag-web") ELSE None
\* i-1 was launched two seconds before the query and is running with a public
\* address, or is stopped; i-2 was launched in the very second of the query
\* and is running without an address, or is still pending.
RawChoices(id, t) ==
    IF id = "i-1"
    THEN { Raw(id, RemoteName(id), "running", Some("10.0.0.1"), Some(t - 2)),
           Raw(id, RemoteName(id), "stopped", None, Some(t - 2)) }
    ELSE { Raw(id, RemoteName(id), "running", None, Some(t)),
           Raw(id, RemoteName(id), "pending", None, Some(t)) }
Result(rc, json, items) == [rc |-> rc, json |-> json, items |-> items]
GoodResults(t) ==
    {Result(0, TRUE, <<>>)}
    \cup {Result(0, TRUE, <<a>>) : a \in RawChoices("i-1", t) \cup RawChoices("i-2", t)}
    \cup {Result(0, TRUE, <<a, b>>) : a \in RawChoices("i-1", t), b \in RawChoices("i-2", t)}
    \cup {Result(0, TRUE, <<b, a>>) : a \in RawChoices("i-1", t), b \in RawChoices("i-2", t)}
BadResults(t) ==
    { Result(1, FALSE, <<>>),
      Result(0, FALSE, <<>>),
      Result(0, TRUE, <<Raw("i-1", None, "running", None, Some(t)),
                        Raw("i-9", None, "running", None, Some(t))>>),
      Result(0, TRUE, <<Raw("i-2", None, "stopped", None, Some(t)),
                        Raw("i-1", None, "running", None, None)>>) }
Results(t) == GoodResults(t) \cup BadResults(t)
\* The answers of the long run: both instances in the order of the
\* configuration, i-1 running or stopped and i-2 pending, or a failure.
LongResults(t) ==
    {Result(0, TRUE, <<a, Raw("i-2", RemoteName("i-2"), "pending", None, Some(t))>>) :
        a \in RawChoices("i-1", t)}
    \cup {Result(1, FALSE, <<>>)}

\* get_ec2_instance_states, lines 72-89: the loop over the items, building
\* the local OrderedDict `instances`; raises on an id that is no key of the
\* config (line 77) and on an unparsable LaunchTime (line 78).
Returned(v) == [raised |-> FALSE, value |-> v]
Raised == [raised |-> TRUE, value |-> <<>>]
RECURSIVE BuildInstances(_, _, _)
BuildInstances(items, instances, current_time) ==
    IF items = <<>> THEN Returned(instances)
    ELSE LET it == Head(items) IN
         IF it.id \notin ConfigIdSet THEN Raised
         ELSE IF IsNone(it.launch) THEN Raised
         ELSE LET launch_time == Val(it.launch)
                  elapsed_time == IF it.state = "running"
                                  THEN Some(current_time - launch_time)
                                  ELSE None
                  inst == Status(it.id,
                                 IF IsNone(it.name) THEN display_name(it.id)
                                                    ELSE Val(it.name),
                                 it.state, it.ip, elapsed_time)
              IN BuildInstances(Tail(items), SetItem(instances, inst), current_time)

\* get_ec2_instance_states, lines 59-89.
get_ec2_instance_states(result, current_time) ==
    IF result.rc # 0 THEN Raised
    ELSE IF ~result.json THEN Raised
    ELSE BuildInstances(result.items, <<>>, current_time)

\* A variant of possible_actions without the test of line 135.
possible_actions_any_running(instance) ==
    [start  |-> instance.state = "stopped",
     stop   |-> instance.state = "running",
     vscode |-> instance.state = "running"]

\* possible_actions, lines 131-139: the dict of line 132 and the three ifs.
\* `if instance.public_ip:` (line 135) is false for None; line 86 never
\* stores an empty string.
possible_actions(instance) ==
    LET actions == [start |-> FALSE, stop |-> FALSE, vscode |-> FALSE]
        running == IF instance.state = "running"
                   THEN [actions EXCEPT !.stop = TRUE,
                                        !.vscode = ~IsNone(instance.public_ip)]
                   ELSE actions
    IN  IF instance.state = "stopped" THEN [running EXCEPT !.start = TRUE]
                                      ELSE running

\* update_instance_status, lines 177-179, run from its call to the end of its
\* merge loop: an exception of the query leaves the store as it was.
RECURSIVE MergeAll(_, _)
MergeAll(od, new_states) ==
    IF new_states = <<>> THEN od
    ELSE MergeAll(SetItem(od, Head(new_states)), Tail(new_states))
update_instance_status(od, result, current_time) ==
    LET r == get_ec2_instance_states(result, current_time) IN
    IF r.raised THEN od ELSE MergeAll(od, r.value)

\* `if instance.elapsed_time:` (line 205): None and timedelta(0) are falsy.
Truthy(elapsed_time) == ~IsNone(elapsed_time) /\ Val(elapsed_time) # 0

\* A variant of Interpolate that counts from zero where there is no elapsed
\* time (`(instance.elapsed_time or timedelta(0)) + timedelta(seconds=1)`).
InterpolateFromZero(od) ==
    [i \in 1..Len(od) |->
        [od[i] EXCEPT !.elapsed_time =
            Some((IF IsNone(od[i].elapsed_time) THEN 0
                                                ELSE Val(od[i].elapsed_time)) + 1)]]

\* Lines 204-206: the interpolation of every status of the store.
Interpolate(od) ==
    [i \in 1..Len(od) |->
        IF Truthy(od[i].elapsed_time)
        THEN [od[i] EXCEPT !.elapsed_time = Some(Val(od[i].elapsed_time) + 1)]
        ELSE od[i]]

\* ------------------------------------------------------------------ state
VARIABLES
    states,                     \* ec2_states, the State Store (line 226)
    continue_watching,          \* line 182
    status_watching_burst,      \* line 183
    status_watching_immidiate,  \* line 184
    now,                        \* the wall clock, in seconds
    wPc,                        \* the worker thread's position
    wRet,                       \* where its update_instance_status returns to
    tick, interval,             \* locals of status_watching_worker
    wNew, wIdx,                 \* new_states and the loop of lines 178-179
    wLoad, wDec,                \* line 201: the loaded counter, the decrement
    uPc,                        \* the main (UI) thread's position
    uNew, uIdx,                 \* new_states of the refresh command
    opsLeft,                    \* menu commands the user may still trigger
    tickDid,                    \* history: what the current tick has done
    act,                        \* history: "armed" by a start/stop action,
                                \*   "due" in the first tick whose test of
                                \*   line 199 comes after it
    sinceAct,                   \* history: worker reconciliations since the
                                \*   last action set the burst (-1: none yet;
                                \*   counted up to BurstLength + 1)
    gap,                        \* history: ticks since the worker's last
                                \*   reconciliation (counted up to
                                \*   default_interval + 1)
    afterStop,                  \* history: tick bodies finished after shutdown
    asked,                      \* history: the time and the items of the
                                \*   worker's query whose merge is under way
    probe                       \* a call of one function on its own: its
                                \*   arguments and the values it returned

vars == <<states, continue_watching, status_watching_burst,
          status_watching_immidiate, now, wPc, wRet, tick, interval, wNew,
          wIdx, wLoad, wDec, uPc, uNew, uIdx, opsLeft, tickDid, act, sinceAct,
          gap, afterStop, asked, probe>>

globals == <<continue_watching, status_watching_burst, status_watching_immidiate>>
wLocals == <<wRet, tick, interval, wNew, wIdx, wLoad, wDec>>
uLocals == <<uPc, uNew, uIdx, opsLeft>>
history == <<tickDid, act, sinceAct, gap, afterStop, asked>>

\* When the worker's query was answered and with what: nothing while the
\* worker is not inside update_instance_status.
Asked(current_time, items) == Some([time |-> current_time, items |-> items])

\* Lines 182-184, 226 and the thread start of lines 277-281: the worker is
\* about to call update_instance_status (line 193), the UI is in mainloop.
Construction(ops) ==
    /\ states = <<>>
    /\ continue_watching = TRUE
    /\ status_watching_burst = 0
    /\ status_watching_immidiate = FALSE
    /\ now = 0
    /\ wPc = "query" /\ wRet = "loop"
    /\ tick = 0 /\ interval = default_interval
    /\ wNew = <<>> /\ wIdx = 0 /\ wLoad = 0 /\ wDec = 0
    /\ uPc = "idle" /\ uNew = <<>> /\ uIdx = 0 /\ opsLeft = ops
    /\ tickDid = {} /\ act = "none" /\ sinceAct = -1 /\ gap = 0 /\ afterStop = 0
    /\ asked = None
InitWith(ops) == Construction(ops) /\ probe = None

Init == InitWith(MaxUIOps)
InitFair == InitWith(FairUIOps)
InitLong == InitWith(LongUIOps)

\* ----------------------------------------------------------- worker thread
\* A variant of WQuery that stores every status as soon as it is built, so
\* that a failure on a later item leaves the earlier ones merged.
RECURSIVE StoreWhileBuilding(_, _, _)
StoreWhileBuilding(items, od, current_time) ==
    IF items = <<>> THEN od
    ELSE LET one == BuildInstances(<<Head(items)>>, <<>>, current_time) IN
         IF one.raised THEN od
         ELSE StoreWhileBuilding(Tail(items), SetItem(od, one.value[1]), current_time)
WQueryStoring ==
    /\ wPc = "query"
    /\ \E result \in Results(now) :
         LET r == get_ec2_instance_states(result, now) IN
         /\ asked' = IF r.raised THEN None ELSE Asked(now, result.items)
         /\ states' = IF result.rc = 0 /\ result.json
                       THEN StoreWhileBuilding(result.items, states, now)
                       ELSE states
         /\ wPc' = IF r.raised THEN "dead" ELSE "view"
         /\ wNew' = IF r.raised THEN <<>> ELSE r.value
         /\ wIdx' = IF r.raised THEN 0 ELSE Len(r.value)
    /\ tickDid' = tickDid \cup {"recon"}
    /\ UNCHANGED <<globals, now, wRet, tick, interval, wLoad, wDec,
                   uLocals, act, sinceAct, gap, afterStop, probe>>

\* update_instance_status, line 177: the query.  An exception leaves
\* update_instance_status and status_watching_worker (no handler anywhere):
\* the thread ends.
WQueryFrom(results) ==
    /\ wPc = "query"
    /\ \E result \in results :
         LET r == get_ec2_instance_states(result, now) IN
         /\ asked' = IF r.raised THEN None ELSE Asked(now, result.items)
         /\ IF r.raised
            THEN /\ wPc' = "dead"
                 /\ wNew' = <<>> /\ wIdx' = 0
            ELSE /\ wNew' = r.value /\ wIdx' = 0
                 /\ wPc' = IF r.value = <<>> THEN "view" ELSE "merge"
    /\ tickDid' = tickDid \cup {"recon"}
    /\ UNCHANGED <<states, globals, now, wRet, tick, interval, wLoad, wDec,
                   uLocals, act, sinceAct, gap, afterStop, probe>>
WQuery == WQueryFrom(Results(now))
WQueryLong == WQueryFrom(LongResults(now))

\* A variant of WMerge that rebinds the store to the statuses of the response.
WMergeRebinding ==
    /\ wPc = "merge"
    /\ states' = SubSeq(wNew, 1, wIdx + 1)
    /\ wIdx' = wIdx + 1
    /\ wPc' = IF wIdx + 1 = Len(wNew) THEN "view" ELSE "merge"
    /\ UNCHANGED <<globals, now, wRet, tick, interval, wNew, wLoad, wDec,
                   uLocals, history, probe>>

\* A variant of WMerge that keeps the elapsed time the store already holds
\* for the id (the interpolated value survives the reconciliation).
WMergeKeepingElapsed ==
    /\ wPc = "merge"
    /\ LET inst == wNew[wIdx + 1] IN
       states' = IF inst.id \in Keys(states)
                       /\ ~IsNone(Get(states, inst.id).elapsed_time)
                 THEN SetItem(states, [inst EXCEPT !.elapsed_time =
                                          Get(states, inst.id).elapsed_time])
                 ELSE SetItem(states, inst)
    /\ wIdx' = wIdx + 1
    /\ wPc' = IF wIdx + 1 = Len(wNew) THEN "view" ELSE "merge"
    /\ UNCHANGED <<globals, now, wRet, tick, interval, wNew, wLoad, wDec,
                   uLocals, history, probe>>

\* update_instance_status, lines 178-179: one iteration of the merge loop.
WMerge ==
    /\ wPc = "merge"
    /\ states' = SetItem(states, wNew[wIdx + 1])
    /\ wIdx' = wIdx + 1
    /\ wPc' = IF wIdx + 1 = Len(wNew) THEN "view" ELSE "merge"
    /\ UNCHANGED <<globals, now, wRet, tick, interval, wNew, wLoad, wDec,
                   uLocals, history, probe>>

\* update_instance_status, line 180: update_treeview reads the store; the
\* function returns to its caller (line 193 or line 200).
WView ==
    /\ wPc = "view"
    /\ wPc' = wRet
    /\ wNew' = <<>> /\ wIdx' = 0
    /\ asked' = None
    /\ UNCHANGED <<states, globals, now, wRet, tick, interval, wLoad, wDec,
                   uLocals, tickDid, act,
                   sinceAct, gap, afterStop, probe>>

\* A variant of WLoop that never looks at the flag (`while True`).
WLoopForever ==
    /\ wPc = "loop"
    /\ tick < MaxTick
    /\ wPc' = "l197"
    /\ UNCHANGED <<states, globals, now, wLocals, uLocals, history, probe>>

\* Line 196: the loop test.  The model follows the worker for MaxTick
\* iterations of the loop (LongTick in the long run).
WLoopUpTo(bound) ==
    /\ wPc = "loop"
    /\ IF continue_watching
       THEN tick < bound /\ wPc' = "l197"
       ELSE wPc' = "done"
    /\ UNCHANGED <<states, globals, now, wLocals, uLocals, history, probe>>
WLoop == WLoopUpTo(MaxTick)
WLoopLong == WLoopUpTo(LongTick)

\* A variant of WInterval whose normal interval is one tick longer.
WIntervalOneMore ==
    /\ wPc = "l197"
    /\ interval' = IF status_watching_burst <= 0 THEN default_interval + 1
                                                 ELSE burst_interval
    /\ tick' = tick + 1
    /\ wPc' = "l199"
    /\ tickDid' = {}
    /\ gap' = IF gap <= default_interval THEN gap + 1 ELSE gap
    /\ UNCHANGED <<states, globals, now, wRet, wNew, wIdx, wLoad, wDec,
                   uLocals, act, sinceAct, afterStop, asked, probe>>

\* Lines 197-198: the interval from the burst counter, the tick counter.
WInterval ==
    /\ wPc = "l197"
    /\ interval' = IF status_watching_burst <= 0 THEN default_interval
                                                 ELSE burst_interval
    /\ tick' = tick + 1
    /\ wPc' = "l199"
    /\ tickDid' = {}
    /\ gap' = IF gap <= default_interval THEN gap + 1 ELSE gap
    /\ UNCHANGED <<states, globals, now, wRet, wNew, wIdx, wLoad, wDec,
                   uLocals, act, sinceAct, afterStop, asked, probe>>

\* A variant of WTest that tests the tick number as it was before the
\* increment of line 198 (`tick += 1` moved below the test).
WTestBeforeIncrement ==
    /\ wPc = "l199"
    /\ IF (tick - 1) % interval = 0 \/ status_watching_immidiate
       THEN wPc' = "query" /\ wRet' = "l201"
       ELSE wPc' = "interp" /\ wRet' = wRet
    /\ act' = IF act = "armed" THEN "due" ELSE act
    /\ UNCHANGED <<states, globals, now, tick, interval, wNew, wIdx, wLoad,
                   wDec, uLocals, tickDid, sinceAct, gap, afterStop, asked, probe>>

\* Line 199: reconcile or interpolate.
WTest ==
    /\ wPc = "l199"
    /\ IF tick % interval = 0 \/ status_watching_immidiate
       THEN wPc' = "query" /\ wRet' = "l201"
       ELSE wPc' = "interp" /\ wRet' = wRet
    /\ act' = IF act = "armed" THEN "due" ELSE act
    /\ UNCHANGED <<states, globals, now, tick, interval, wNew, wIdx, wLoad,
                   wDec, uLocals, tickDid, sinceAct, gap, afterStop, asked, probe>>

\* Line 201, `status_watching_burst -= 1 if status_watching_burst > 0 else 0`:
\* the counter is loaded,
WLoadBurst ==
    /\ wPc = "l201"
    /\ wLoad' = status_watching_burst
    /\ wPc' = "l201cond"
    /\ UNCHANGED <<states, globals, now, wRet, tick, interval, wNew, wIdx,
                   wDec, uLocals, history, probe>>

\* the conditional expression is evaluated,
WCondBurst ==
    /\ wPc = "l201cond"
    /\ wDec' = IF status_watching_burst > 0 THEN 1 ELSE 0
    /\ wPc' = "l201store"
    /\ UNCHANGED <<states, globals, now, wRet, tick, interval, wNew, wIdx,
                   wLoad, uLocals, history, probe>>

\* and the difference is stored.
WStoreBurst ==
    /\ wPc = "l201store"
    /\ status_watching_burst' = wLoad - wDec
    /\ wLoad' = 0 /\ wDec' = 0
    /\ wPc' = "l202"
    /\ sinceAct' = IF sinceAct >= 0 /\ sinceAct <= BurstLength
                   THEN sinceAct + 1 ELSE sinceAct
    /\ gap' = 0
    /\ UNCHANGED <<states, continue_watching, status_watching_immidiate, now,
                   wRet, tick, interval, wNew, wIdx, uLocals, tickDid, act,
                   afterStop, asked, probe>>

\* A variant of WClearImmediate without the `else:` of line 203: the
\* interpolation follows the reconciliation.
WClearImmediateFallThrough ==
    /\ wPc = "l202"
    /\ status_watching_immidiate' = FALSE
    /\ wPc' = "interp"
    /\ wRet' = "loop"
    /\ UNCHANGED <<states, continue_watching, status_watching_burst, now,
                   tick, interval, wNew, wIdx, wLoad, wDec, uLocals, tickDid,
                   act, sinceAct, gap, afterStop, asked, probe>>

\* Line 202.
WClearImmediate ==
    /\ wPc = "l202"
    /\ status_watching_immidiate' = FALSE
    /\ wPc' = "sleep"
    /\ wRet' = "loop"
    /\ UNCHANGED <<states, continue_watching, status_watching_burst, now,
                   tick, interval, wNew, wIdx, wLoad, wDec, uLocals, tickDid,
                   act, sinceAct, gap, afterStop, asked, probe>>

\* Lines 204-206.
WInterpolate ==
    /\ wPc = "interp"
    /\ states' = Interpolate(states)
    /\ wPc' = "iview"
    /\ tickDid' = tickDid \cup {"interp"}
    /\ UNCHANGED <<globals, now, wLocals, uLocals, act, sinceAct, gap, afterStop, asked, probe>>

\* Line 207: update_treeview reads the store.
WInterpView ==
    /\ wPc = "iview"
    /\ wPc' = "sleep"
    /\ UNCHANGED <<states, globals, now, wLocals, uLocals, history, probe>>

\* Line 208.
WSleep ==
    /\ wPc = "sleep"
    /\ now' = now + 1
    /\ wPc' = "loop"
    /\ afterStop' = IF continue_watching THEN afterStop ELSE afterStop + 1
    /\ act' = IF act = "due" THEN "none" ELSE act
    /\ UNCHANGED <<states, globals, wLocals, uLocals, tickDid, sinceAct, gap, asked, probe>>

Worker ==
    \/ WQuery \/ WMerge \/ WView \/ WLoop \/ WInterval \/ WTest
    \/ WLoadBurst \/ WCondBurst \/ WStoreBurst \/ WClearImmediate
    \/ WInterpolate \/ WInterpView \/ WSleep

\* ------------------------------------------------------- UI (main) thread
\* Lines 243-260, 264-272: the context menu on a row whose id is a key of the
\* store offers the commands possible_actions allows; the chosen command
\* runs its aws command (line 93).
UStartStop ==
    /\ uPc = "idle"
    /\ opsLeft > 0
    /\ \E i \in 1..Len(states) :
         \/ possible_actions(states[i]).start
         \/ possible_actions(states[i]).stop
    /\ uPc' = "send"
    /\ opsLeft' = opsLeft - 1
    /\ UNCHANGED <<states, globals, now, wPc, wLocals, uNew, uIdx, history, probe>>

\* _send_command, lines 93-99, and back in start_ec2_instance /
\* stop_ec2_instance (lines 101-118): a non-zero return code raises, and the
\* call of burst_status_watching on line 108 / 118 is not reached.
USendReturn ==
    /\ uPc = "send"
    /\ \E returncode \in {0, 1} :
         uPc' = IF returncode # 0 THEN "idle" ELSE "l213"
    /\ UNCHANGED <<states, globals, now, wPc, wLocals, uNew, uIdx, opsLeft, history, probe>>

\* burst_status_watching, line 213.
USetBurst ==
    /\ uPc = "l213"
    /\ status_watching_burst' = BurstLength
    /\ uPc' = "l214"
    /\ sinceAct' = 0
    /\ UNCHANGED <<states, continue_watching, status_watching_immidiate, now,
                   wPc, wLocals, uNew, uIdx, opsLeft, tickDid, act, gap, afterStop, asked, probe>>

\* burst_status_watching, line 214.
USetImmediate ==
    /\ uPc = "l214"
    /\ status_watching_immidiate' = TRUE
    /\ uPc' = "idle"
    /\ act' = "armed"
    /\ UNCHANGED <<states, continue_watching, status_watching_burst, now,
                   wPc, wLocals, uNew, uIdx, opsLeft, tickDid, sinceAct, gap,
                   afterStop, asked, probe>>

\* open_vscode_remote_ssh, lines 121-128: the command is started,
UVscode ==
    /\ uPc = "idle"
    /\ opsLeft > 0
    /\ \E i \in 1..Len(states) : possible_actions(states[i]).vscode
    /\ uPc' = "vscode"
    /\ opsLeft' = opsLeft - 1
    /\ UNCHANGED <<states, globals, now, wPc, wLocals, uNew, uIdx, history, probe>>

\* A variant of UVscodeReturn that ends like the start and stop commands,
\* with the two assignments of burst_status_watching.
UVscodeReturnBursting ==
    /\ uPc = "vscode"
    /\ uPc' = "idle"
    /\ status_watching_burst' = BurstLength
    /\ status_watching_immidiate' = TRUE
    /\ UNCHANGED <<states, continue_watching, now, wPc, wLocals, uNew, uIdx,
                   opsLeft, history, probe>>

\* and subprocess.run returns (line 128).
UVscodeReturn ==
    /\ uPc = "vscode"
    /\ uPc' = "idle"
    /\ UNCHANGED <<states, globals, now, wPc, wLocals, uNew, uIdx, opsLeft, history, probe>>

\* Line 262: the refresh command calls update_instance_status.
URefresh ==
    /\ uPc = "idle"
    /\ opsLeft > 0
    /\ uPc' = "query"
    /\ opsLeft' = opsLeft - 1
    /\ UNCHANGED <<states, globals, now, wPc, wLocals, uNew, uIdx, history, probe>>

\* update_instance_status on the UI thread, line 177; an exception ends the
\* command (tkinter reports it) and the main loop goes on.
UQuery ==
    /\ uPc = "query"
    /\ \E result \in Results(now) :
         LET r == get_ec2_instance_states(result, now) IN
         IF r.raised
         THEN uPc' = "idle" /\ uNew' = <<>> /\ uIdx' = 0
         ELSE /\ uNew' = r.value /\ uIdx' = 0
              /\ uPc' = IF r.value = <<>> THEN "view" ELSE "merge"
    /\ UNCHANGED <<states, globals, now, wPc, wLocals, opsLeft, history, probe>>

\* Lines 178-179 on the UI thread.
UMerge ==
    /\ uPc = "merge"
    /\ states' = SetItem(states, uNew[uIdx + 1])
    /\ uIdx' = uIdx + 1
    /\ uPc' = IF uIdx + 1 = Len(uNew) THEN "view" ELSE "merge"
    /\ UNCHANGED <<globals, now, wPc, wLocals, uNew, opsLeft, history, probe>>

\* Line 180 on the UI thread.
UView ==
    /\ uPc = "view"
    /\ uPc' = "idle"
    /\ uNew' = <<>> /\ uIdx' = 0
    /\ UNCHANGED <<states, globals, now, wPc, wLocals, opsLeft, history, probe>>

\* Lines 283-285: the window is closed, mainloop returns, the flag is cleared.
UClose ==
    /\ uPc = "idle"
    /\ continue_watching' = FALSE
    /\ uPc' = "join"
    /\ UNCHANGED <<states, status_watching_burst, status_watching_immidiate,
                   now, wPc, wLocals, uNew, uIdx, opsLeft, history, probe>>

\* Line 286: thread.join() returns once the worker thread has ended.
UJoin ==
    /\ uPc = "join"
    /\ wPc \in {"done", "dead"}
    /\ uPc' = "exited"
    /\ UNCHANGED <<states, globals, now, wPc, wLocals, uNew, uIdx, opsLeft, history, probe>>

UI ==
    \/ UStartStop \/ USendReturn \/ USetBurst \/ USetImmediate
    \/ UVscode \/ UVscodeReturn
    \/ URefresh \/ UQuery \/ UMerge \/ UView
    \/ UClose \/ UJoin

Next == Worker \/ UI

Spec == Init /\ [][Next]_vars

\* The long run: the worker and the start/stop commands, without the other
\* menu commands and without a shutdown.
WorkerLong ==
    \/ WQueryLong \/ WMerge \/ WView \/ WLoopLong \/ WInterval \/ WTest
    \/ WLoadBurst \/ WCondBurst \/ WStoreBurst \/ WClearImmediate
    \/ WInterpolate \/ WInterpView \/ WSleep
UILong == UStartStop \/ USendReturn \/ USetBurst \/ USetImmediate
NextLong == WorkerLong \/ UILong
LongSpec == InitLong /\ [][NextLong]_vars

\* ------------------------------------------------- single function calls
\* The stores a call of update_instance_status can find: empty, or what two
\* reconciliations with an interpolation tick after each have left.
ProbeStores ==
    {<<>>} \cup
    { Interpolate(update_instance_status(
          Interpolate(update_instance_status(<<>>, r1, ProbeTime - 2)),
          r2, ProbeTime - 1)) :
        r1 \in GoodResults(ProbeTime - 2), r2 \in GoodResults(ProbeTime - 1) }
\* State.Name of an EC2 instance (items[2], line 79).
InstanceStates ==
    {"pending", "running", "shutting-down", "terminated", "stopping", "stopped"}
\* The statuses line 81 can build for i-1.
ProbeInstances ==
    { Status("i-1", display_name("i-1"), state, public_ip,
             IF state = "running" THEN Some(ProbeTime) ELSE None) :
        state \in InstanceStates, public_ip \in {None, Some("10.0.0.1")} }
ProbeCalls ==
    { [fn |-> "update_instance_status", store |-> od, result |-> result,
       out |-> <<>>] : od \in ProbeStores, result \in Results(ProbeTime) }
    \cup { [fn |-> "possible_actions", instance |-> instance, out |-> <<>>] :
              instance \in ProbeInstances }
\* No thread runs; one call is chosen.
InitPure == Construction(0) /\ probe \in ProbeCalls

\* update_instance_status is called, and called once more, with the same
\* answer of the query at the same time.
PUpdate ==
    /\ probe.fn = "update_instance_status"
    /\ Len(probe.out) < 2
    /\ probe' = [probe EXCEPT !.out =
                    Append(@, update_instance_status(
                                  IF @ = <<>> THEN probe.store ELSE @[Len(@)],
                                  probe.result, ProbeTime))]
    /\ UNCHANGED <<states, globals, now, wPc, wLocals, uLocals, history>>

\* possible_actions is called.
PActions ==
    /\ probe.fn = "possible_actions"
    /\ probe.out = <<>>
    /\ probe' = [probe EXCEPT !.out = <<possible_actions(probe.instance)>>]
    /\ UNCHANGED <<states, globals, now, wPc, wLocals, uLocals, history>>

NextPure == PUpdate \/ PActions
PureSpec == InitPure /\ [][NextPure]_vars

\* The interpreter keeps scheduling a runnable thread, and subprocess.run
\* returns: every enabled step of the worker and the join are taken.
FairSpec == InitFair /\ [][Next]_vars /\ WF_vars(Worker) /\ WF_vars(UJoin)

\* ================================================================ claims

\* C1: wherever in the worker's loop a start/stop action runs
\* burst_status_watching, the first tick the worker decides after the action
\* reconciles (it does not interpolate), and once that reconciliation is
\* over the burst counter is BurstLength - 1 = 9 and the immediate flag is
\* clear (no other action being in the middle of burst_status_watching).
C1_NextTickReconciles ==
    /\ act = "due" => wPc \notin {"interp", "iview"}
    /\ (act = "due" /\ wPc = "sleep" /\ uPc \notin {"l213", "l214"})
          => (status_watching_burst = BurstLength - 1 /\ ~status_watching_immidiate)

\* C2: after the last start/stop action has set the burst, every worker
\* reconciliation takes exactly one off the counter, so that the counter is
\* back to 0 (normal interval) after exactly BurstLength = 10 of them, and
\* while the counter is positive a reconciliation comes at most
\* burst_interval = 6 ticks after the one before.
C2_BurstSchedule ==
    /\ sinceAct >= 0 =>
          IF status_watching_burst > 0
          THEN sinceAct + status_watching_burst = BurstLength
          ELSE sinceAct >= BurstLength
    /\ (sinceAct >= 1 /\ status_watching_burst > 0) => gap <= burst_interval

\* C3: a reconciliation attempt whose query fails (on the worker or on the UI
\* thread) leaves the State Store exactly as it was.
C3_FailedQueryKeepsStore ==
    [][ ((wPc = "query" /\ wPc' = "dead") \/ (uPc = "query" /\ uPc' = "idle"))
           => states' = states ]_vars
\* A query of the worker's loop has failed with both ids in the store.
C3_Witness == wPc = "dead" /\ tick > 0 /\ Len(states) = 2

\* C4: a query failure never ends the worker.
C4_WorkerSurvivesFailure == wPc # "dead"

\* C5: a finished tick body has done exactly one of the two steps, the
\* reconciliation or the interpolation.
C5_ExactlyOneStepPerTick ==
    (wPc = "sleep") => (tickDid = {"recon"} \/ tickDid = {"interp"})
\* A tick of the loop that reconciled has finished its body.
C5_Witness == wPc = "sleep" /\ tickDid = {"recon"} /\ tick = burst_interval

\* C6: a step of the merge loop removes no key from the State Store and
\* leaves every status whose id is not in the query response as it was.
KeepsOthers(before, after, response) ==
    /\ Keys(before) \subseteq Keys(after)
    /\ \A id \in Keys(before) \ Keys(response) : Get(after, id) = Get(before, id)
C6_MergeFrame ==
    [][ /\ (wPc = "merge" /\ wIdx' = wIdx + 1) => KeepsOthers(states, states', wNew)
        /\ (uPc = "merge" /\ uIdx' = uIdx + 1) => KeepsOthers(states, states', uNew)
      ]_vars
\* The worker has merged a response that lacks an id of the store.
C6_Witness ==
    /\ wPc = "view" /\ wRet = "l201" /\ wNew # <<>>
    /\ Keys(states) \ Keys(wNew) # {}

\* C7: update_treeview never reads the State Store while the other thread is
\* part-way through its merge loop with entries still to replace.
PartWay(new, idx) ==
    /\ 0 < idx /\ idx < Len(new)
    /\ \E j \in (idx + 1)..Len(new) :
          new[j].id \notin Keys(states) \/ Get(states, new[j].id) # new[j]
C7_ViewSeesWholeMerges ==
    /\ uPc = "view" => ~PartWay(wNew, wIdx)
    /\ wPc \in {"view", "iview"} => ~PartWay(uNew, uIdx)

\* C8: after the shutdown flag is cleared the worker finishes at most one
\* tick body, and the join of line 286 returns.
C8_ShutdownWithinOneTick ==
    /\ [](afterStop <= 1)
    /\ (~continue_watching) ~> (uPc = "exited")
\* The join has returned after a tick body that finished after the shutdown.
C8_Witness == uPc = "exited" /\ wPc = "done" /\ afterStop = 1

\* C9: every start/stop command, whatever its return code, is followed by
\* burst_status_watching, which sets the counter to BurstLength = 10 and the
\* immediate flag.
C9_EveryActionEntersBurst ==
    [][ /\ (uPc = "send" /\ uPc' # "send") => uPc' = "l213"
        /\ (uPc = "l213" /\ uPc' # "l213") => status_watching_burst' = BurstLength
        /\ (uPc = "l214" /\ uPc' # "l214") => status_watching_immidiate'
      ]_vars

\* C10: the interpolation of a tick adds one second to every elapsed time
\* that is not None, whatever its value, and leaves every other status as
\* it was.
C10_InterpolationAddsOne ==
    [][ (wPc = "interp" /\ wPc' = "iview") =>
          /\ Len(states') = Len(states)
          /\ \A i \in 1..Len(states) :
                IF IsNone(states[i].elapsed_time)
                THEN states'[i] = states[i]
                ELSE states'[i] = [states[i] EXCEPT !.elapsed_time =
                                      Some(Val(states[i].elapsed_time) + 1)]
      ]_vars

\* C11: between two reconciliations (of either thread) the elapsed time
\* stored for an id never decreases, and the merge of a reconciliation of the
\* worker stores for a running id the query's current time minus the
\* reported launch time (None for any other state), whatever the store held
\* for the id before.
ItemOf(items, id) ==
    items[CHOOSE k \in 1..Len(items) :
             items[k].id = id /\ \A j \in (k + 1)..Len(items) : items[j].id # id]
ElapsedFrom(q, id) ==
    LET it == ItemOf(q.items, id) IN
    IF it.state = "running" THEN Some(q.time - Val(it.launch)) ELSE None
WMerges(id) == wPc = "merge" /\ wIdx' = wIdx + 1 /\ wNew[wIdx + 1].id = id
UMerges(id) == uPc = "merge" /\ uIdx' = uIdx + 1 /\ uNew[uIdx + 1].id = id
NotDecreased(before, after) ==
    IsNone(before) \/ (~IsNone(after) /\ Val(after) >= Val(before))
C11_ElapsedTime ==
    [][ \A id \in Keys(states) \cup Keys(states') :
           /\ (id \in Keys(states) /\ ~WMerges(id) /\ ~UMerges(id)) =>
                 /\ id \in Keys(states')
                 /\ NotDecreased(Get(states, id).elapsed_time,
                                 Get(states', id).elapsed_time)
           /\ WMerges(id) =>
                 Get(states', id).elapsed_time = ElapsedFrom(Val(asked), id)
      ]_vars
\* A reconciliation of the worker's loop has merged a running id over a value
\* the ticks before it had interpolated.
C11_Witness ==
    /\ wPc = "view" /\ wRet = "l201" /\ tick >= 3
    /\ \E i \in 1..Len(states) :
          /\ states[i].id \in Keys(wNew)
          /\ states[i].state = "running"
          /\ states[i].elapsed_time = Some(2)

\* C12: in every state a status of the store whose state is not "running"
\* has no elapsed time, and an elapsed time appears for an id (new in the
\* store, or None before) only in the merge of a reconciliation that reports
\* the id as running: no interpolation tick defines it.
BecomesDefined(id) ==
    /\ id \in Keys(states) => IsNone(Get(states, id).elapsed_time)
    /\ ~IsNone(Get(states', id).elapsed_time)
C12_NotRunningNoElapsed ==
    /\ [](\A i \in 1..Len(states) :
            states[i].state # "running" => IsNone(states[i].elapsed_time))
    /\ [][ \A id \in Keys(states') :
             BecomesDefined(id) =>
                \/ WMerges(id) /\ wNew[wIdx + 1].state = "running"
                \/ UMerges(id) /\ uNew[uIdx + 1].state = "running" ]_vars
\* An interpolation tick has run over a store that holds a stopped instance.
C12_Witness ==
    /\ wPc = "iview" /\ tick >= 2
    /\ \E i \in 1..Len(states) :
          states[i].state = "stopped" /\ IsNone(states[i].elapsed_time)

\* C13: as long as no start/stop action has touched the burst control
\* (counter 0 and flag clear since the start), a tick of the worker's loop
\* reconciles if and only if its number is a multiple of default_interval
\* = 60: ticks 1..59 interpolate, tick 60 reconciles.
C13_NormalModeSchedule ==
    sinceAct = -1 =>
       /\ wPc \in {"interp", "iview"} => tick % default_interval # 0
       /\ wRet = "l201" => tick % default_interval = 0
       /\ wPc = "sleep" => (tickDid = {"recon"} <=> tick % default_interval = 0)
\* Tick 60 has reconciled in normal mode.
C13_Witness ==
    /\ wPc = "sleep" /\ tick = default_interval /\ tickDid = {"recon"}
    /\ sinceAct = -1 /\ status_watching_burst = 0

\* C14: update_instance_status applied twice with the same answer of the
\* query at the same current time leaves the store that one application
\* leaves.
C14_ReconcileIdempotent ==
    (probe.fn = "update_instance_status" /\ Len(probe.out) = 2)
       => probe.out[2] = probe.out[1]
\* Two applications are done, the first of which replaced a status of a store
\* of two and changed it.
C14_Witness ==
    /\ probe.fn = "update_instance_status" /\ Len(probe.out) = 2
    /\ Len(probe.store) = 2 /\ Len(probe.out[1]) = 2
    /\ probe.out[1] # probe.store

\* C20: possible_actions offers start exactly for a stopped instance, stop
\* exactly for a running one and the VSCode session exactly for a running
\* one with a public address; never start and stop together, and nothing in
\* any other state.
C20_PossibleActions ==
    (probe.fn = "possible_actions" /\ probe.out # <<>>) =>
       LET instance == probe.instance
           actions == probe.out[1]
       IN  /\ actions.start <=> instance.state = "stopped"
           /\ actions.stop <=> instance.state = "running"
           /\ actions.vscode <=> (instance.state = "running"
                                    /\ ~IsNone(instance.public_ip))
           /\ ~(actions.start /\ actions.stop)
           /\ instance.state \notin {"running", "stopped"} =>
                 ~(actions.start \/ actions.stop \/ actions.vscode)
\* The function has answered for a running instance without an address.
C20_Witness ==
    /\ probe.fn = "possible_actions" /\ probe.out # <<>>
    /\ probe.instance.state = "running" /\ IsNone(probe.instance.public_ip)
    /\ probe.out[1].stop /\ ~probe.out[1].vscode

\* C15: in every state the keys of the store are ids of the configuration,
\* and once the worker's reconciliation of line 193 (the first one) has
\* succeeded every id of the configuration is a key of the store.
FirstReconciliationDone ==
    /\ wPc # "dead"
    /\ ~(wRet = "loop" /\ wPc \in {"query", "merge", "view"})
C15_KeysAreTheConfigIds ==
    /\ Keys(states) \subseteq ConfigIdSet
    /\ FirstReconciliationDone => Keys(states) = ConfigIdSet

\* C16: the VSCode command leaves the burst counter and the immediate flag
\* as they are; on the UI thread only the two lines of
\* burst_status_watching write them, and only the start and stop commands
\* get there.
C16_OnlyStartStopBurst ==
    [][ /\ (uPc' # uPc /\ uPc \notin {"l213", "l214"}) =>
              /\ status_watching_burst' = status_watching_burst
              /\ status_watching_immidiate' = status_watching_immidiate
        /\ (uPc' = "l213" /\ uPc # "l213") => uPc = "send"
      ]_vars
\* The VSCode command is running while a burst is on and the flag is set.
C16_Witness ==
    /\ uPc = "vscode"
    /\ status_watching_burst = BurstLength /\ status_watching_immidiate

\* C17: whatever the interleaving of burst_status_watching with the three
\* steps of line 201, the burst counter stays within 0..BurstLength.
C17_BurstWithinRange ==
    status_watching_burst >= 0 /\ status_watching_burst <= BurstLength

\* C18 (as claimed): in every state the keys of the store iterate in the
\* relative order of the configuration, in whatever order the query reports
\* the instances.
ConfigIndex(id) == CHOOSE k \in 1..Len(ConfigIds) : ConfigIds[k] = id
C18_KeysInConfigOrder ==
    \A i, j \in 1..Len(states) :
        i < j => ConfigIndex(states[i].id) < ConfigIndex(states[j].id)
\* C18 (amended): the keys of the store iterate in the order of their first
\* insertion, which is the order in which the responses first reported them:
\* a step never changes the position of a key already in the store, and
\* adds at most one key, after the others.
C18_InsertionOrderStable ==
    [][ /\ \A i \in 1..Len(states) :
              i <= Len(states') /\ states'[i].id = states[i].id
        /\ Len(states') <= Len(states) + 1
      ]_vars
\* A reconciliation of the worker's loop has replaced both statuses of a
\* store whose keys are in the reverse order of the configuration.
C18_Witness ==
    /\ wPc = "view" /\ wRet = "l201" /\ Len(wNew) = 2
    /\ Len(states) = 2 /\ states[1].id = "i-2" /\ states[2].id = "i-1"

\* C19: while the worker keeps ticking and its queries succeed, an
\* interpolation tick is never more than the 59th (default_interval - 1)
\* tick in a row without a reconciliation, whatever start/stop actions and
\* returns from burst to normal mode come in between.
C19_BoundedStaleness ==
    wPc \in {"interp", "iview"} => gap <= default_interval - 1
\* A burst has run its ten reconciliations, the worker is back in normal mode
\* and has interpolated for the fifth tick in a row.
C19_Witness ==
    /\ wPc = "iview" /\ gap = burst_interval - 1
    /\ sinceAct = BurstLength /\ status_watching_burst = 0

====
